---- MODULE Spec2Model ----
(***************************************************************************)
(* A model of src/extract_weather.py: one run of main(), from the         *)
(* credential check to the end of the per-location loop, together with    *)
(* the helpers it calls (parse_locations_arg, load_locations_from_file,   *)
(* call_current_weather, build_s3_key, upload_json_to_s3).                *)
(*                                                                         *)
(* Python strings are sequences of one-character strings.  The HTTP API,  *)
(* the object store, the configuration file and the wall clock are the    *)
(* environment: their outcomes are chosen nondeterministically.           *)
(***************************************************************************)
EXTENDS Integers, Sequences, FiniteSets, TLC

\* ------------------------------------------------------------------ bounds
\* Longest --locations argument enumerated character by character.
MaxArgLen == 5
\* Largest number of locations in a config file.
MaxLocs == 3
\* Clock ticks per second: the clock is finer than the key's timestamp.
TicksPerSecond == 2
\* Largest number of ticks that pass unobserved before the clock is read.
MaxElapsed == 1

\* ------------------------------------------------- module-level configuration
MAX_RETRIES == 3
RETRY_BACKOFF_SECONDS == 3
S3_RAW_PREFIX == <<"r", "a", "w", "/", "w", "e", "a", "t", "h", "e", "r", "/">>

\* ------------------------------------------------------------ Python strings
\* str.split(sep): the pieces of s between the occurrences of sep.
RECURSIVE SplitFrom(_, _, _, _)
SplitFrom(s, sep, k, cur) ==
    IF k > Len(s) THEN <<cur>>
    ELSE IF s[k] = sep THEN <<cur>> \o SplitFrom(s, sep, k + 1, <<>>)
    ELSE SplitFrom(s, sep, k + 1, Append(cur, s[k]))

Split(s, sep) == SplitFrom(s, sep, 1, <<>>)

\* sep in s
Contains(s, sep) == \E k \in 1..Len(s) : s[k] = sep

\* Index of the first occurrence of sep in s, 0 when there is none.
FirstIndex(s, sep) ==
    IF Contains(s, sep)
    THEN CHOOSE k \in 1..Len(s) : s[k] = sep /\ \A j \in 1..(k - 1) : s[j] # sep
    ELSE 0

\* str.split(sep, 1): at most one split, at the first occurrence of sep.
SplitOnce(s, sep) ==
    LET k == FirstIndex(s, sep)
    IN  IF k = 0 THEN <<s>>
        ELSE <<SubSeq(s, 1, k - 1), SubSeq(s, k + 1, Len(s))>>

\* str.strip(): leading and trailing blanks removed.
RECURSIVE LStrip(_)
LStrip(s) == IF s # <<>> /\ Head(s) = " " THEN LStrip(Tail(s)) ELSE s

RECURSIVE RStrip(_)
RStrip(s) ==
    IF s # <<>> /\ s[Len(s)] = " " THEN RStrip(SubSeq(s, 1, Len(s) - 1)) ELSE s

Strip(s) == LStrip(RStrip(s))

Digits == {"0", "1", "2", "3", "4", "5", "6", "7", "8", "9"}

DigitVal(c) == CHOOSE n \in 0..9 : ToString(n) = c

RECURSIVE NatOf(_)
NatOf(ds) ==
    IF ds = <<>> THEN 0
    ELSE 10 * NatOf(SubSeq(ds, 1, Len(ds) - 1)) + DigitVal(ds[Len(ds)])

RECURSIVE DropTrailingZeros(_)
DropTrailingZeros(ds) ==
    IF ds # <<>> /\ ds[Len(ds)] = "0"
    THEN DropTrailingZeros(SubSeq(ds, 1, Len(ds) - 1))
    ELSE ds

AllDigits(ds) == \A k \in 1..Len(ds) : ds[k] \in Digits

\* float(s) accepts, of the strings over the model's alphabet, an optional
\* sign, digits and at most one point, with a digit on one side of the point.
FloatOk(str) ==
    LET s == Strip(str)
        u == IF s # <<>> /\ s[1] \in {"-", "+"} THEN Tail(s) ELSE s
        p == SplitOnce(u, ".")
    IN  /\ \A k \in 1..Len(p) : AllDigits(p[k])
        /\ \E k \in 1..Len(p) : p[k] # <<>>

\* The number float(s) returns: its sign, integer part and fraction digits.
Float(str) ==
    LET s == Strip(str)
        neg == s # <<>> /\ s[1] = "-"
        u == IF s # <<>> /\ s[1] \in {"-", "+"} THEN Tail(s) ELSE s
        p == SplitOnce(u, ".")
        frac == IF Len(p) = 2 THEN DropTrailingZeros(p[2]) ELSE <<>>
    IN  [neg |-> neg /\ (NatOf(p[1]) # 0 \/ frac # <<>>),
         int |-> NatOf(p[1]),
         frac |-> frac]

\* A float written as integer part and fraction digits, e.g. Num(1, <<>>) = 1.0.
Num(n, frac) == [neg |-> FALSE, int |-> n, frac |-> frac]

\* ------------------------------------------------------------- Python dicts
\* A dict is the sequence of its items in insertion order.
DictHas(d, key) == \E k \in 1..Len(d) : d[k].name = key

\* d[key] = (lat, lon): a new key is appended, an old key keeps its place.
DictSet(d, key, lat, lon) ==
    LET item == [name |-> key, lat |-> lat, lon |-> lon]
    IN  IF DictHas(d, key)
        THEN [k \in 1..Len(d) |-> IF d[k].name = key THEN item ELSE d[k]]
        ELSE Append(d, item)

\* ------------------------------------------------------ parse_locations_arg
\* The unpacking  lat_str, lon_str = coords.split(",", 1)  raises ValueError
\* unless the split yields exactly two pieces.
UnpackOk(parts) == Len(parts) = 2

\* One iteration of the loop over locations_arg.split(","), applied to the
\* state st = [raised, locations, warnings] reached so far.
ParseStep(st, pair) ==
    IF st.raised THEN st
    ELSE IF Contains(pair, "=")
    THEN LET nc == SplitOnce(pair, "=")
             parts == SplitOnce(nc[2], ",")
         IN  IF ~UnpackOk(parts) THEN [st EXCEPT !.raised = TRUE]
             ELSE IF ~FloatOk(parts[1]) \/ ~FloatOk(parts[2])
             THEN [st EXCEPT !.raised = TRUE]
             ELSE [st EXCEPT !.locations =
                       DictSet(@, Strip(nc[1]), Float(parts[1]), Float(parts[2]))]
    ELSE [st EXCEPT !.warnings = Append(@, pair)]

RECURSIVE ParseLoop(_, _)
ParseLoop(st, pairs) ==
    IF pairs = <<>> THEN st
    ELSE ParseLoop(ParseStep(st, Head(pairs)), Tail(pairs))

\* parse_locations_arg(locations_arg): raised is TRUE when an exception
\* leaves the function, and then no mapping is returned.
parse_locations_arg(locations_arg) ==
    ParseLoop([raised |-> FALSE, locations |-> <<>>, warnings |-> <<>>],
              Split(locations_arg, ","))

\* --------------------------------------------------------------- build_s3_key
UpperCase == <<"A", "B", "C", "D", "E", "F", "G", "H", "I", "J", "K", "L", "M",
               "N", "O", "P", "Q", "R", "S", "T", "U", "V", "W", "X", "Y", "Z">>

LowerCase == <<"a", "b", "c", "d", "e", "f", "g", "h", "i", "j", "k", "l", "m",
               "n", "o", "p", "q", "r", "s", "t", "u", "v", "w", "x", "y", "z">>

\* str.lower(), one character at a time.
LowerChar(c) ==
    IF \E k \in 1..26 : UpperCase[k] = c
    THEN LowerCase[CHOOSE k \in 1..26 : UpperCase[k] = c]
    ELSE c

\* str.replace(old, new) for one-character old and new.
Replace(s, old, new) == [k \in 1..Len(s) |-> IF s[k] = old THEN new ELSE s[k]]

Lower(s) == [k \in 1..Len(s) |-> LowerChar(s[k])]

\* safe_city = city_name.replace(" ", "_").lower()
SafeCity(city_name) == Lower(Replace(city_name, " ", "_"))

\* A number below 100 as two digits (%H, %M and %S are zero-padded).
TwoDigits(n) == <<ToString(n \div 10), ToString(n % 10)>>

\* datetime.utcnow().strftime("%Y-%m-%d_%H-%M-%S") when the clock reads t
\* ticks after midnight of the day the run started: the ticks inside a
\* second are dropped.
Strftime(t) ==
    LET secs == t \div TicksPerSecond
    IN  <<"1", "9", "7", "0", "-", "0", "1", "-", "0", "1", "_">>
        \o TwoDigits((secs \div 3600) % 24) \o <<"-">>
        \o TwoDigits((secs \div 60) % 60) \o <<"-">>
        \o TwoDigits(secs % 60)

\* The key without the case folding of the city name.
build_s3_key_NoLower(prefix, city_name, t) ==
    prefix \o Replace(city_name, " ", "_") \o <<"/", "w", "e", "a", "t", "h", "e", "r", "_">>
        \o Strftime(t) \o <<".", "j", "s", "o", "n">>

\* build_s3_key(prefix, city_name) when the clock reads t.
build_s3_key(prefix, city_name, t) ==
    prefix \o SafeCity(city_name) \o <<"/", "w", "e", "a", "t", "h", "e", "r", "_">>
        \o Strftime(t) \o <<".", "j", "s", "o", "n">>

\* ------------------------------------------------------------- record shaping
\* A raw response that carries every field the shaping reads.
FullPayload ==
    [main |-> [temp |-> 21, humidity |-> 60],
     wind |-> [speed |-> 3],
     weather |-> <<[description |-> "clear sky"]>>,
     dt |-> 1700000000]

\* The decoded JSON bodies the API may answer with: the full one, and one
\* for each field or path the shaping reads being absent.
Payloads ==
    { FullPayload,
      [FullPayload EXCEPT !.main = [humidity |-> 60]],
      [FullPayload EXCEPT !.main = [temp |-> 21]],
      [FullPayload EXCEPT !.wind = [deg |-> 180]],
      [FullPayload EXCEPT !.weather = <<>>],
      [FullPayload EXCEPT !.weather = <<[id |-> 800]>>],
      [main |-> FullPayload.main, wind |-> FullPayload.wind,
       weather |-> FullPayload.weather] }

\* Whether every subscript of the data_to_store literal finds its key.
ShapeOk(p) ==
    /\ "main" \in DOMAIN p /\ "temp" \in DOMAIN p.main
    /\ "humidity" \in DOMAIN p.main
    /\ "wind" \in DOMAIN p /\ "speed" \in DOMAIN p.wind
    /\ "weather" \in DOMAIN p /\ Len(p.weather) >= 1
    /\ "description" \in DOMAIN p.weather[1]
    /\ "dt" \in DOMAIN p

\* data_to_store for a payload that has every field.
Shape(p, name, lat, lon) ==
    [city |-> name, lat |-> lat, lon |-> lon,
     temp |-> p.main.temp, humidity |-> p.main.humidity,
     wind_speed |-> p.wind.speed,
     description |-> p.weather[1].description,
     timestamp |-> p.dt]

\* json.dumps(data, ensure_ascii=False).encode("utf-8"): the object's body.
JsonBody(data) == <<"json", "utf-8", data>>

\* ------------------------------------------------------------------ the run
VARIABLES
    apiKey,     \* OPENWEATHER_API_KEY is set and not empty
    args,       \* the parsed command line; args.given: the options present
    file,       \* the file --config names, as open() and json.load() find it
    pc,         \* where main() is
    exitCode,   \* the process's exit status, -1 while it runs
    locations,  \* the resolved mapping, in insertion order
    warnings,   \* the tokens parse_locations_arg warned about
    i,          \* position of the for loop in locations
    attempt,    \* call_current_weather's attempt
    payload,    \* the last decoded response
    data,       \* data_to_store
    now,        \* the wall clock, in ticks
    store,      \* the bucket: key -> body
    obs         \* per location, what the run did: requests, sleeps, log lines

vars == <<apiKey, args, file, pc, exitCode, locations, warnings, i, attempt,
          payload, data, now, store, obs>>

\* The location names the config file and --location draw from.
Names == { <<"N", " ", "Y">>, <<"n", "_", "y">>, <<"o">> }

\* The characters the enumerated --locations arguments are made of.
ArgAlphabet == {"a", "=", ",", "1"}

\* The documented inline argument, and one with a token that has no "=".
ExampleArg ==
    <<"a", "=", "1", ".", "0", ",", "2", ".", "0", ",",
      "b", "=", "3", ".", "0", ",", "4", ".", "0">>

ExampleArgWithBadToken == ExampleArg \o <<",", "c">>

InlineArgs ==
    UNION {[1..n -> ArgAlphabet] : n \in 0..MaxArgLen}
        \cup {ExampleArg, ExampleArgWithBadToken}

\* The JSON objects a well-formed config file may hold: up to MaxLocs
\* distinct names, each with a pair of numbers.
FileMappings ==
    { m \in UNION {[1..n -> Names] : n \in 0..MaxLocs} :
          \A j, k \in 1..Len(m) : j # k => m[j] # m[k] }

FileItem(name) == [name |-> name, lat |-> Num(Len(name), <<>>), lon |-> Num(2, <<"5">>)]

Files ==
    { [state |-> "unreadable", data |-> <<>>], [state |-> "malformed", data |-> <<>>] }
        \cup { [state |-> "ok", data |-> [k \in 1..Len(m) |-> FileItem(m[k])]] :
                   m \in FileMappings }

NoArgs ==
    [given |-> {}, locations |-> <<>>, config |-> <<>>, location |-> <<>>,
     lat |-> Num(0, <<>>), lon |-> Num(0, <<>>), dry_run |-> FALSE]

\* The command lines argparse accepts: exactly one of --locations, --config
\* and --location, --lat and --lon optional, --dry-run optional.
ArgSets ==
    { [NoArgs EXCEPT !.given = {"locations"}, !.locations = a, !.dry_run = d] :
          a \in InlineArgs, d \in BOOLEAN }
    \cup
    { [NoArgs EXCEPT !.given = {"config"}, !.config = <<"c", "f", "g">>, !.dry_run = d] :
          d \in BOOLEAN }
    \cup
    { [NoArgs EXCEPT !.given = {"location"} \cup g, !.location = n,
                     !.lat = Num(1, <<>>), !.lon = Num(2, <<>>), !.dry_run = d] :
          g \in SUBSET {"lat", "lon"}, n \in Names, d \in BOOLEAN }

NoFile == [state |-> "none", data |-> <<>>]

NoPayload == [none |-> TRUE]

Init ==
    /\ apiKey \in BOOLEAN
    /\ args \in ArgSets
    /\ file \in (IF "config" \in args.given THEN Files ELSE {NoFile})
    /\ pc = "start"
    /\ exitCode = -1
    /\ locations = <<>>
    /\ warnings = <<>>
    /\ i = 0
    /\ attempt = 0
    /\ payload = NoPayload
    /\ data = NoPayload
    /\ now = 0
    /\ store = <<>>
    /\ obs = <<>>

\* What is recorded of one location's processing.
ObsInit ==
    [reqs |-> 0, fails |-> 0, sleeps |-> <<>>, fetch |-> "none", shape |-> "none",
     reports |-> 0, puts |-> 0, write |-> "none", key |-> <<>>, tick |-> 0]

\* The run without its credential check.
CredentialMissing_Unchecked == FALSE

\* if not OPENWEATHER_API_KEY
CredentialMissing == ~apiKey

\* Python's truth value of an optional string argument.
Truthy(opt) == opt \in args.given /\ args[opt] # <<>>

\* if not OPENWEATHER_API_KEY: ... sys.exit(1)
CheckCredential ==
    /\ pc = "start"
    /\ IF CredentialMissing
       THEN pc' = "exit" /\ exitCode' = 1
       ELSE pc' = "resolve" /\ UNCHANGED exitCode
    /\ UNCHANGED <<apiKey, args, file, locations, warnings, i, attempt, payload,
                   data, now, store, obs>>

\* The run enters the for loop over locs; an exception that left the resolver
\* leaves main too, and the interpreter exits with status 1.
EnterLoop(raised, locs, warned) ==
    IF raised
    THEN /\ pc' = "raised" /\ exitCode' = 1
         /\ UNCHANGED <<locations, warnings, i, obs>>
    ELSE /\ pc' = "loop" /\ UNCHANGED exitCode
         /\ locations' = locs
         /\ warnings' = warned
         /\ i' = 1
         /\ obs' = [k \in 1..Len(locs) |-> ObsInit]

\* if args.locations: locations = parse_locations_arg(args.locations)
ResolveInline ==
    /\ pc = "resolve"
    /\ Truthy("locations")
    /\ LET r == parse_locations_arg(args.locations)
       IN  EnterLoop(r.raised, r.locations, r.warnings)
    /\ UNCHANGED <<apiKey, args, file, attempt, payload, data, now, store>>

\* load_locations_from_file(path): open() or json.load() raises on a file
\* that cannot be read or is not JSON.
load_locations_from_file(f) ==
    IF f.state = "ok"
    THEN [raised |-> FALSE, locations |-> f.data]
    ELSE [raised |-> TRUE, locations |-> <<>>]

\* elif args.config: locations = load_locations_from_file(args.config)
ResolveConfig ==
    /\ pc = "resolve"
    /\ ~Truthy("locations")
    /\ Truthy("config")
    /\ LET r == load_locations_from_file(file)
       IN  EnterLoop(r.raised, r.locations, <<>>)
    /\ UNCHANGED <<apiKey, args, file, attempt, payload, data, now, store>>

\* if args.lat is None or args.lon is None
CoordinateMissing == "lat" \notin args.given \/ "lon" \notin args.given

\* else: the single-location form
ResolveSingle ==
    /\ pc = "resolve"
    /\ ~Truthy("locations")
    /\ ~Truthy("config")
    /\ IF CoordinateMissing
       THEN /\ pc' = "exit" /\ exitCode' = 1
            /\ UNCHANGED <<locations, warnings, i, obs>>
       ELSE EnterLoop(FALSE,
                      <<[name |-> args.location, lat |-> args.lat, lon |-> args.lon]>>,
                      <<>>)
    /\ UNCHANGED <<apiKey, args, file, attempt, payload, data, now, store>>

\* ------------------------------------------------------ the per-location loop
Terminal == pc \in {"done", "exit", "raised"}

\* The location the for loop is at.
Loc == locations[i]

\* continue, or the end of the loop body: on to the next location.
Continue == pc' = "loop" /\ i' = i + 1 /\ UNCHANGED exitCode

\* An exception leaves main: the interpreter prints it and exits with status 1.
Escape == pc' = "raised" /\ i' = i /\ exitCode' = 1

\* try: payload = call_current_weather(...) except Exception: ... continue
FetchExceptionCaught == TRUE

\* The data_to_store literal is evaluated outside any try block.
ShapeExceptionCaught == FALSE

\* The upload without its try block.
UploadExceptionCaught_NoHandler == FALSE

\* try: upload_json_to_s3(...) except Exception: logger.exception(...)
UploadExceptionCaught == TRUE

\* while attempt < MAX_RETRIES
MayAttempt(n) == n < MAX_RETRIES

\* The exhaustion test off by one: a fourth attempt would be prepared.
RetriesExhausted_OffByOne(n) == n > MAX_RETRIES

\* if attempt >= MAX_RETRIES: ... raise
RetriesExhausted(n) == n >= MAX_RETRIES

\* A backoff that does not grow with the attempt.
BackoffDelay_Constant(n) == RETRY_BACKOFF_SECONDS

\* time.sleep(RETRY_BACKOFF_SECONDS * attempt)
BackoffDelay(n) == RETRY_BACKOFF_SECONDS * n

\* The --dry-run flag ignored.
IsDryRun_Ignored == FALSE

\* if args.dry_run
IsDryRun == args.dry_run

\* The ways requests.get and raise_for_status fail with a RequestException.
FailKinds == {"transport", "timeout", "http"}

\* for name, (lat, lon) in locations.items(): the next location's call of
\* call_current_weather begins, with attempt = 0.
StartLocation ==
    /\ pc = "loop"
    /\ i <= Len(locations)
    /\ pc' = "request"
    /\ attempt' = 0
    /\ UNCHANGED <<apiKey, args, file, exitCode, locations, warnings, i, payload,
                   data, now, store, obs>>

\* The loop is over: logger.info("Extraction job complete."), main returns.
Finish ==
    /\ pc = "loop"
    /\ i > Len(locations)
    /\ pc' = "done"
    /\ exitCode' = 0
    /\ UNCHANGED <<apiKey, args, file, locations, warnings, i, attempt, payload,
                   data, now, store, obs>>

\* An attempt succeeds: return resp.json()
RequestOk ==
    /\ pc = "request"
    /\ MayAttempt(attempt)
    /\ \E p \in Payloads : payload' = p
    /\ obs' = [obs EXCEPT ![i].reqs = @ + 1, ![i].fetch = "ok"]
    /\ pc' = "shape"
    /\ UNCHANGED <<apiKey, args, file, exitCode, locations, warnings, i, attempt,
                   data, now, store>>

\* An attempt fails: except requests.RequestException. The last failure is
\* raised again, and main's handler logs it and continues.
RequestFail ==
    /\ pc = "request"
    /\ MayAttempt(attempt)
    /\ \E kind \in FailKinds :
        /\ attempt' = attempt + 1
        /\ IF RetriesExhausted(attempt')
           THEN /\ obs' = [obs EXCEPT ![i].reqs = @ + 1, ![i].fails = @ + 1,
                                      ![i].fetch = "failed"]
                /\ IF FetchExceptionCaught THEN Continue ELSE Escape
           ELSE /\ obs' = [obs EXCEPT ![i].reqs = @ + 1, ![i].fails = @ + 1]
                /\ pc' = "backoff"
                /\ UNCHANGED <<i, exitCode>>
    /\ UNCHANGED <<apiKey, args, file, locations, warnings, payload, data, now, store>>

\* time.sleep(RETRY_BACKOFF_SECONDS * attempt), then the next attempt.
Backoff ==
    /\ pc = "backoff"
    /\ obs' = [obs EXCEPT ![i].sleeps = Append(@, BackoffDelay(attempt))]
    /\ now' = now + BackoffDelay(attempt) * TicksPerSecond
    /\ pc' = "request"
    /\ UNCHANGED <<apiKey, args, file, exitCode, locations, warnings, i, attempt,
                   payload, data, store>>

\* data_to_store = {...}: a missing key raises KeyError (IndexError for an
\* empty weather list).
ShapeRecord ==
    /\ pc = "shape"
    /\ IF ShapeOk(payload)
       THEN /\ data' = Shape(payload, Loc.name, Loc.lat, Loc.lon)
            /\ obs' = [obs EXCEPT ![i].shape = "ok"]
            /\ pc' = "write"
            /\ UNCHANGED <<i, exitCode>>
       ELSE /\ obs' = [obs EXCEPT ![i].shape = "failed"]
            /\ IF ShapeExceptionCaught THEN Continue ELSE Escape
            /\ UNCHANGED data
    /\ UNCHANGED <<apiKey, args, file, locations, warnings, attempt, payload, now, store>>

\* if args.dry_run: logger.info("Dry run enabled ... would upload ..."); continue
DryRunReport ==
    /\ pc = "write"
    /\ IsDryRun
    /\ obs' = [obs EXCEPT ![i].reports = @ + 1]
    /\ Continue
    /\ UNCHANGED <<apiKey, args, file, locations, warnings, attempt, payload, data,
                   now, store>>

\* s3_client.put_object(Bucket, Key, Body): the object is created or replaced.
PutObject(s, key, body) ==
    [k \in DOMAIN s \cup {key} |-> IF k = key THEN body ELSE s[k]]

\* key = build_s3_key(...); upload_json_to_s3(...) with put_object succeeding.
UploadOk ==
    /\ pc = "write"
    /\ ~IsDryRun
    /\ \E d \in 0..MaxElapsed :
        LET key == build_s3_key(S3_RAW_PREFIX, Loc.name, now + d)
        IN  /\ now' = now + d
            /\ store' = PutObject(store, key, JsonBody(data))
            /\ obs' = [obs EXCEPT ![i].puts = @ + 1, ![i].write = "ok",
                                  ![i].key = key, ![i].tick = now + d]
    /\ Continue
    /\ UNCHANGED <<apiKey, args, file, locations, warnings, attempt, payload, data>>

\* The same with put_object raising: nothing is stored.
UploadFail ==
    /\ pc = "write"
    /\ ~IsDryRun
    /\ \E d \in 0..MaxElapsed :
        LET key == build_s3_key(S3_RAW_PREFIX, Loc.name, now + d)
        IN  /\ now' = now + d
            /\ obs' = [obs EXCEPT ![i].puts = @ + 1, ![i].write = "failed",
                                  ![i].key = key, ![i].tick = now + d]
    /\ IF UploadExceptionCaught THEN Continue ELSE Escape
    /\ UNCHANGED <<apiKey, args, file, locations, warnings, attempt, payload, data,
                   store>>

Next ==
    \/ CheckCredential
    \/ ResolveInline
    \/ ResolveConfig
    \/ ResolveSingle
    \/ StartLocation
    \/ Finish
    \/ RequestOk
    \/ RequestFail
    \/ Backoff
    \/ ShapeRecord
    \/ DryRunReport
    \/ UploadOk
    \/ UploadFail

Spec == Init /\ [][Next]_vars

\* ------------------------------------------------------------------ claims
\* The positions of the resolved locations.
Seen == 1..Len(obs)

\* C1: one call of call_current_weather issues at most 3 requests; when all
\* of its attempts fail it has issued exactly 3, the failure is raised to the
\* caller, no value is returned and no further attempt is prepared.
C1_AtMostThreeAttempts ==
    \A k \in Seen :
        /\ obs[k].reqs <= 3
        /\ obs[k].fetch = "failed" => obs[k].reqs = 3 /\ obs[k].fails = 3
        /\ obs[k].fails = 3 =>
              /\ obs[k].fetch = "failed"
              /\ obs[k].reqs = 3
              /\ obs[k].shape = "none"
              /\ i > k

C1_Witness == \E k \in Seen : obs[k].fetch = "failed" /\ obs[k].reqs = 3

\* C2: after the k-th failed attempt (k = 1, 2) and before the next attempt
\* the call sleeps 3 * k seconds; there is no sleep after a success or after
\* the third failure; a call that fails twice and then succeeds returns the
\* decoded response after sleeps of 3 s and 6 s, in that order.
C2_LinearBackoff ==
    \A k \in Seen :
        LET o == obs[k]
            slept == IF k = i /\ pc = "backoff" THEN o.fails - 1
                     ELSE IF o.fails = 3 THEN 2 ELSE o.fails
        IN  /\ o.sleeps = SubSeq(<<3, 6>>, 1, slept)
            /\ (k = i /\ pc = "request") => Len(o.sleeps) = attempt
            /\ (o.fetch = "ok" /\ o.fails = 2) =>
                  /\ o.sleeps = <<3, 6>>
                  /\ o.reqs = 3
                  /\ (k = i /\ pc = "shape") => payload \in Payloads

C2_Witness ==
    \E k \in Seen : obs[k].fetch = "ok" /\ obs[k].fails = 2 /\ obs[k].sleeps = <<3, 6>>

\* C3: a response that lacks an expected field is a per-location skip: no
\* record is written for the location, its fetch is not retried, and the
\* orchestrator goes on to process every later location.
C3_ShapeFailureSkipsLocation ==
    \A k \in Seen :
        obs[k].shape = "failed" =>
            /\ obs[k].puts = 0
            /\ obs[k].reports = 0
            /\ obs[k].reqs = obs[k].fails + 1
            /\ pc # "raised"
            /\ i > k
            /\ Terminal => \A m \in Seen : m > k => obs[m].reqs >= 1

\* C4: when the fetch of a location fails for good, the location is neither
\* shaped nor written, the loop proceeds to the next location, and every
\* location after it in the mapping is still fetched.
C4_FetchFailureSkipsLocation ==
    \A k \in Seen :
        obs[k].fetch = "failed" =>
            /\ obs[k].shape = "none"
            /\ obs[k].puts = 0
            /\ obs[k].reports = 0
            /\ i > k
            /\ Terminal => \A m \in Seen : m > k => obs[m].reqs >= 1

\* C5: without --dry-run the write of a location is attempted at most once;
\* a failed write is logged, is not retried, stores nothing, and the run goes
\* on: the next location is fetched, and after the last location main returns.
C5_WriteAttemptedOnce ==
    \A k \in Seen :
        /\ obs[k].puts <= 1
        /\ obs[k].puts = 1 => ~args.dry_run
        /\ obs[k].write = "failed" =>
              /\ obs[k].puts = 1
              /\ i > k
              /\ (Terminal /\ k < Len(obs)) => obs[k + 1].reqs >= 1
              /\ (Terminal /\ k = Len(obs)) => pc = "done" /\ exitCode = 0

C5_Witness ==
    \E k \in Seen :
        /\ obs[k].write = "failed"
        /\ k < Len(obs)
        /\ obs[k + 1].write = "ok"
        /\ pc = "done"

\* C6, for the runs that resolved their locations: the process exits with 1
\* when the credential is absent or --location comes without both
\* coordinates; a run that entered the per-location loop ends with main
\* returning and exit status 0, whatever fetch, shape or write failures it met.
C6_ExitStatus ==
    Terminal =>
        /\ (~apiKey \/ ("location" \in args.given /\ ~({"lat", "lon"} \subseteq args.given)))
              => exitCode = 1
        /\ i >= 1 => pc = "done" /\ exitCode = 0

\* C7: a configuration error (no credential, --location without both
\* coordinates, a config file that cannot be read or parsed) ends the run
\* before any request to the weather API and any write to the store.
C7_ConfigErrorBeforeNetwork ==
    (\/ ~apiKey
     \/ "location" \in args.given /\ ~({"lat", "lon"} \subseteq args.given)
     \/ "config" \in args.given /\ file.state # "ok")
    => /\ \A k \in Seen : obs[k].reqs = 0 /\ obs[k].puts = 0
       /\ DOMAIN store = {}
       /\ pc \notin {"request", "backoff", "shape", "write", "done"}

C7_Witness ==
    /\ apiKey
    /\ "config" \in args.given
    /\ file.state = "malformed"
    /\ pc = "raised"

\* C8: with --dry-run nothing is ever put into the store, and each location
\* whose fetch and shaping both succeeded gets exactly one would-upload
\* report, the others none; a run over two locations, one failing to fetch
\* for good and one succeeding, ends with main returning, exit status 0 and
\* exactly one report.
C8_DryRunWritesNothing ==
    args.dry_run =>
        /\ DOMAIN store = {}
        /\ \A k \in Seen :
              /\ obs[k].puts = 0
              /\ obs[k].reports =
                    IF obs[k].fetch = "ok" /\ obs[k].shape = "ok" /\ (k < i \/ Terminal)
                    THEN 1 ELSE 0
        /\ (/\ Terminal
            /\ Len(obs) = 2
            /\ \E j, k \in Seen :
                  /\ obs[j].fetch = "failed"
                  /\ obs[k].fetch = "ok" /\ obs[k].shape = "ok")
           => /\ pc = "done" /\ exitCode = 0
              /\ obs[1].reports + obs[2].reports = 1

C8_Witness ==
    /\ args.dry_run
    /\ pc = "done"
    /\ Len(obs) = 2
    /\ obs[1].fetch = "failed"
    /\ obs[2].reports = 1

\* The inline mapping the documentation gives for "a=1.0,2.0,b=3.0,4.0".
ExampleMapping ==
    << [name |-> <<"a">>, lat |-> Num(1, <<>>), lon |-> Num(2, <<>>)],
       [name |-> <<"b">>, lat |-> Num(3, <<>>), lon |-> Num(4, <<>>)] >>

\* C9: "a=1.0,2.0,b=3.0,4.0" parses to {a: (1.0, 2.0), b: (3.0, 4.0)}, and a
\* token without "=" is dropped with a warning: nothing is raised and the
\* other tokens are still parsed.
C9_InlineParsing ==
    (apiKey /\ "locations" \in args.given /\ pc \notin {"start", "resolve"}) =>
        /\ args.locations = ExampleArg =>
              pc # "raised" /\ locations = ExampleMapping
        /\ args.locations = ExampleArgWithBadToken =>
              pc # "raised" /\ locations = ExampleMapping /\ warnings = << <<"c">> >>

\* The body stored for location k.
BodyOf(k) ==
    JsonBody(Shape(FullPayload, locations[k].name, locations[k].lat, locations[k].lon))

\* C10: the key is the prefix, the city name in lower case with blanks as
\* underscores, "/weather_", the UTC time to the second, ".json" ("N Y"
\* gives raw/weather/n_y/weather_<time>.json); two successful writes whose
\* names normalise alike within one second use one key, and the store then
\* holds the later record under it, with nothing reported.
C10_KeyCollisionLastWriteWins ==
    /\ \A k \in Seen :
          (obs[k].puts = 1 /\ locations[k].name = <<"N", " ", "Y">>) =>
              obs[k].key =
                  <<"r", "a", "w", "/", "w", "e", "a", "t", "h", "e", "r", "/",
                    "n", "_", "y", "/", "w", "e", "a", "t", "h", "e", "r", "_">>
                  \o Strftime(obs[k].tick) \o <<".", "j", "s", "o", "n">>
    /\ \A j, k \in Seen :
          (/\ j < k
           /\ obs[j].write = "ok" /\ obs[k].write = "ok"
           /\ SafeCity(locations[j].name) = SafeCity(locations[k].name)
           /\ obs[j].tick \div TicksPerSecond = obs[k].tick \div TicksPerSecond)
          => /\ obs[j].key = obs[k].key
             /\ locations[j].name \in {<<"N", " ", "Y">>, <<"n", "_", "y">>}
             /\ locations[k].name \in {<<"N", " ", "Y">>, <<"n", "_", "y">>}
    /\ DOMAIN store = {obs[k].key : k \in {m \in Seen : obs[m].write = "ok"}}
    /\ \A k \in Seen :
          (/\ obs[k].write = "ok"
           /\ \A m \in Seen : (m > k /\ obs[m].write = "ok") => obs[m].key # obs[k].key)
          => store[obs[k].key] = BodyOf(k)

C10_Witness ==
    \E j, k \in Seen :
        /\ j < k
        /\ obs[j].write = "ok" /\ obs[k].write = "ok"
        /\ locations[j].name # locations[k].name
        /\ obs[j].key = obs[k].key
        /\ store[obs[k].key] = BodyOf(k)
        /\ store[obs[k].key] # BodyOf(j)
        /\ Cardinality(DOMAIN store) = 1

====
